---- MODULE Spec2Model ----
(***************************************************************************)
(* State-machine model of the upload / polling / navigation core of the    *)
(* DocGuard AI frontend (src/frontend/app.js).                             *)
(*                                                                         *)
(* A "submission" is one run of uploadSingle or uploadBatch.  Every        *)
(* submission that reaches the polling stage owns two interval timers      *)
(* (the status poller and the agent-step animator); the module-level       *)
(* variables processingInterval and agentStepInterval hold the handles of  *)
(* the timers created last.  A timer is identified by the submission that  *)
(* created it, so a handle is a submission number, or Null.                *)
(*                                                                         *)
(* The specifications share the actions.  Spec follows the submissions     *)
(* (two of them, every outcome of upload and status query) under a few     *)
(* navigations; NavSpec follows the detail view (pending loadAnalysis      *)
(* calls, batch tabs, batches reopened from the history) around one batch  *)
(* submission; LiveSpec is one submission under fair timers and responses; *)
(* DelSpec adds the deletion of the job being polled, FilesSpec follows    *)
(* the file selection up to its limit, KbSpec the reindex button.          *)
(***************************************************************************)
EXTENDS Integers, Sequences, FiniteSets, TLC

\* ---- Bounds ---------------------------------------------------------------
MaxSubs == 2          \* submissions started in one behaviour
MaxRuns == 2          \* status queries, over all submissions, that are pending, failed or read a terminal status
StepCount == 1        \* number of .agent-step elements in the page
MaxPick == 3          \* documents of one submission the server accepts
MaxLoads == 1         \* loadAnalysis requests pending when the user starts another
MaxHistOpens == 1     \* openBatchFromHistory requests pending at a time
MaxKbRuns == 2        \* clicks on the reindex button in one behaviour
MaxKbQueries == 2     \* progress queries of one reindex pending at a time

\* ---- Program constants ----------------------------------------------------
Null == 0
MaxBatchFiles == 10
MaxFileSize == 16
ValidExts == {"pdf", "docx", "doc", "txt", "xlsx", "xls", "csv"}
Pages == {"dashboard", "upload", "documents", "standards", "history",
          "analysis", "chat"}

\* ---- Universe of inputs ---------------------------------------------------
\* Files the user can pick: name, extension, size in MB.
FileA == [name |-> "a", ext |-> "pdf", size |-> 1]
FileB == [name |-> "b", ext |-> "txt", size |-> 16]
FileC == [name |-> "c", ext |-> "docx", size |-> 2]
FileX == [name |-> "x", ext |-> "exe", size |-> 1]
FileL == [name |-> "l", ext |-> "pdf", size |-> 17]
PickLists == {<<FileA>>, <<FileX>>, <<FileL>>, <<FileA, FileB>>}
\* The pick of NavSpec: one batch of three documents.
NavPickLists == {<<FileA, FileB, FileC>>}
\* One file more than a batch takes, all valid and of different names.
ManyFiles == [i \in 1..(MaxBatchFiles + 1) |->
                 [name |-> ToString(i), ext |-> "pdf", size |-> 1]]
\* The picks of FilesSpec: the long one, and one with a file of a refused
\* extension, a file of exactly the size limit, a file above it and the
\* name of the second once more.
FilesPickLists == {ManyFiles, <<FileX, FileB, FileL, FileB>>}

\* Pages the sidebar clicks of a behaviour go to; dashboard stands for the
\* pages whose case of navigateTo only starts a loader.
NavPages == {"dashboard", "upload", "analysis"}
\* The sidebar clicks of NavSpec.
NavSpecPages == {"history", "upload", "analysis"}

Subs == 1..MaxSubs
KbRuns == 1..MaxKbRuns
\* A document that exists on the server before the behaviour starts.
OldDoc == Null + 1
\* Document ids the server hands out to submission s, in submission order.
FreshDocIds(s, n) == [i \in 1..n |-> 1 + (s - 1) * MaxPick + i]
\* The batch id the server hands out to submission s.
FreshBatchId(s) == s
\* A batch analysis that exists on the server before the behaviour starts,
\* and its documents in order.
OldBatch == MaxSubs + 1
OldBatchDocs == <<MaxSubs * MaxPick + 2, MaxSubs * MaxPick + 3>>

\* Documents the user opens from a list in a behaviour: one that belongs to
\* no batch and the second document of the first submission.
OpenableDocs == {OldDoc, FreshDocIds(1, 2)[2]}

\* Documents whose tab the user clicks: the second of either batch.
TabDocs == {FreshDocIds(1, 2)[2], OldBatchDocs[2]}

SeqToSet(q) == {q[i] : i \in 1..Len(q)}

VARIABLES
    currentPage,          \* app.js:8
    currentDocId,         \* app.js:9
    currentBatchId,       \* app.js:10
    currentBatchDocIds,   \* app.js:11
    processingInterval,   \* app.js:13  handle: submission whose poller it is, or Null
    agentStepInterval,    \* app.js:14  handle: submission whose animator it is, or Null
    selectedFiles,        \* app.js:184
    upl,                  \* per submission: position of uploadSingle/uploadBatch
    nfiles,               \* per submission: number of files handed to the upload
    docIds,               \* per submission: document ids returned by the upload
    pollLive,             \* per submission: its setInterval poller is scheduled
    animLive,             \* per submission: its setInterval animator is scheduled
    step,                 \* per submission: closure variable `step` of the animator
    inflight,             \* per submission: status queries awaiting their response
    doneRuns,             \* per submission: times the completed branch ran
    failRuns,             \* per submission: times the failed branch ran (alerts)
    entered,              \* per submission: completed-branch setTimeout callbacks run
    uploadAlerts,         \* per submission: alerts raised by a failed upload
    swallowed,            \* per submission: failed status queries the empty catch absorbed
    tornDown,             \* per submission: resetUpload cancelled its live poller
    latestPending,        \* fetchLatestDocForAnalysis request awaiting its response
    overlay,              \* #processingOverlay is displayed
    batchProgress,        \* status labels of the .batch-doc-item rows while #batchProgress is displayed, <<>> while it is hidden
    loads,                \* loadAnalysis calls awaiting a response: [doc, batch, stage]
    histOpens,            \* batch ids of openBatchFromHistory calls awaiting their response
    tabsVisible,          \* #batchDocTabs is displayed
    tabsBatch,            \* batch whose tabs fill #batchTabsContainer, or Null
    delReq,               \* per submission: DELETE request for its job awaiting the response, by its origin
    deleted,              \* per submission: the server has deleted its job
    delPause,             \* per submission: deleteDocument waits its 600 ms before it refreshes the page
    kbStart,              \* per reindex click: position of the click handler
    kbPollLive,           \* per reindex click: its setInterval `poll` is scheduled
    kbInflight,           \* per reindex click: progress queries awaiting their response
    kbBtnDisabled,        \* #reindexBtn is disabled
    kbProgress,           \* #reindexProgress is displayed
    kbClose,              \* #closeReindexBtn is displayed
    kbPct                 \* percentage #reindexFill and #reindexPercent show

vars == <<currentPage, currentDocId, currentBatchId, currentBatchDocIds,
          processingInterval, agentStepInterval, selectedFiles, upl, nfiles,
          docIds, pollLive, animLive, step, inflight, doneRuns, failRuns, entered, uploadAlerts, swallowed, tornDown,
          latestPending, overlay, batchProgress, loads, histOpens, tabsVisible,
          tabsBatch, delReq, deleted, delPause, kbStart, kbPollLive,
          kbInflight, kbBtnDisabled, kbProgress, kbClose, kbPct>>

navVars == <<currentPage, currentDocId, currentBatchId, currentBatchDocIds,
             latestPending>>
subVars == <<upl, nfiles, docIds, step, inflight, doneRuns,
             failRuns, entered, uploadAlerts, swallowed>>
\* the timers, their handles and what resetUpload writes besides
timerVars == <<processingInterval, agentStepInterval, selectedFiles, pollLive,
               animLive, tornDown, overlay>>
\* the detail view
viewVars == <<tabsVisible, tabsBatch>>
\* deleteDocument / deleteHistoryItem
delVars == <<delReq, deleted, delPause>>
\* the reindex button of the knowledge base
kbVars == <<kbStart, kbPollLive, kbInflight, kbBtnDisabled, kbProgress, kbClose, kbPct>>
\* everything but the deletions and the reindex
mainVars == <<navVars, subVars, timerVars, batchProgress, loads, histOpens,
              viewVars>>

Init ==
    /\ currentPage = "dashboard"
    /\ currentDocId = Null
    /\ currentBatchId = Null
    /\ currentBatchDocIds = <<>>
    /\ processingInterval = Null
    /\ agentStepInterval = Null
    /\ selectedFiles = <<>>
    /\ upl = [s \in Subs |-> "none"]
    /\ nfiles = [s \in Subs |-> 0]
    /\ docIds = [s \in Subs |-> <<>>]
    /\ pollLive = [s \in Subs |-> FALSE]
    /\ animLive = [s \in Subs |-> FALSE]
    /\ step = [s \in Subs |-> 0]
    /\ inflight = [s \in Subs |-> 0]
    /\ doneRuns = [s \in Subs |-> 0]
    /\ failRuns = [s \in Subs |-> 0]
    /\ entered = [s \in Subs |-> 0]
    /\ uploadAlerts = [s \in Subs |-> 0]
    /\ swallowed = [s \in Subs |-> 0]
    /\ tornDown = [s \in Subs |-> FALSE]
    /\ latestPending = FALSE
    /\ overlay = FALSE
    /\ batchProgress = <<>>
    /\ loads = {}
    /\ histOpens = {}
    /\ tabsVisible = FALSE
    /\ tabsBatch = Null
    /\ delReq = [s \in Subs |-> "none"]
    /\ deleted = [s \in Subs |-> FALSE]
    /\ delPause = [s \in Subs |-> FALSE]
    /\ kbStart = [r \in KbRuns |-> "none"]
    /\ kbPollLive = [r \in KbRuns |-> FALSE]
    /\ kbInflight = [r \in KbRuns |-> 0]
    /\ kbBtnDisabled = FALSE
    /\ kbProgress = FALSE
    /\ kbClose = FALSE
    /\ kbPct = 0

\* ---- Helpers --------------------------------------------------------------
\* clearInterval(h): cancels the timer the handle names; a null handle or an
\* already cancelled timer is a no-op.
ClearInterval(live, h) == IF h = Null THEN live ELSE [live EXCEPT ![h] = FALSE]

\* The analyze button sends one file to uploadSingle and several to uploadBatch.
Kind(s) == IF nfiles[s] = 1 THEN "single" ELSE "batch"

\* AddFiles without the limit of ten files.
RECURSIVE AddFilesNoLimit(_, _)
AddFilesNoLimit(sel, files) ==
    IF files = <<>> THEN sel
    ELSE LET file == Head(files) IN
         IF file.ext \notin ValidExts THEN AddFilesNoLimit(sel, Tail(files))
         ELSE IF file.size > MaxFileSize THEN AddFilesNoLimit(sel, Tail(files))
         ELSE IF \E i \in 1..Len(sel) : sel[i].name = file.name
              THEN AddFilesNoLimit(sel, Tail(files))
         ELSE AddFilesNoLimit(Append(sel, file), Tail(files))

\* handleFiles: the loop over the picked files, as a fold over the list.
RECURSIVE AddFiles(_, _)
AddFiles(sel, files) ==
    IF files = <<>> THEN sel
    ELSE LET file == Head(files) IN
         IF file.ext \notin ValidExts THEN AddFiles(sel, Tail(files))
         ELSE IF file.size > MaxFileSize THEN AddFiles(sel, Tail(files))
         ELSE IF Len(sel) >= MaxBatchFiles THEN sel
         ELSE IF \E i \in 1..Len(sel) : sel[i].name = file.name
              THEN AddFiles(sel, Tail(files))
         ELSE AddFiles(Append(sel, file), Tail(files))

\* selectedFiles.splice(idx, 1)
Splice(sel, idx) == [i \in 1..(Len(sel) - 1) |-> IF i < idx THEN sel[i] ELSE sel[i + 1]]

\* What resetUpload reads and writes, with the timer tables pl / al.
UploadState(pl, al) ==
    [sel |-> selectedFiles, overlay |-> overlay, progress |-> batchProgress,
     pl |-> pl, al |-> al,
     pi |-> processingInterval, ai |-> agentStepInterval]

\* Reset with the overlay toggled instead of hidden.
ResetToggleOverlay(st) ==
    [sel |-> <<>>,
     overlay |-> ~st.overlay,
     progress |-> <<>>,
     pl |-> ClearInterval(st.pl, st.pi),
     al |-> ClearInterval(st.al, st.ai),
     pi |-> Null,
     ai |-> Null]

\* resetUpload as a function of that state: clears the selection, hides the
\* overlay and the batch progress, cancels the timers the two module-level
\* handles name and nulls the handles.
Reset(st) ==
    [sel |-> <<>>,
     overlay |-> FALSE,
     progress |-> <<>>,
     pl |-> ClearInterval(st.pl, st.pi),
     al |-> ClearInterval(st.al, st.ai),
     pi |-> Null,
     ai |-> Null]

\* resetUpload, started from the timer tables pl / al.
ResetUpload(pl, al) ==
    LET r == Reset(UploadState(pl, al)) IN
    /\ selectedFiles' = r.sel
    /\ overlay' = r.overlay
    /\ batchProgress' = r.progress
    /\ pollLive' = r.pl
    /\ animLive' = r.al
    /\ processingInterval' = r.pi
    /\ agentStepInterval' = r.ai
    /\ tornDown' = IF processingInterval # Null /\ pl[processingInterval]
                   THEN [tornDown EXCEPT ![processingInterval] = TRUE]
                   ELSE tornDown

\* A pending loadAnalysis(d, b) call: awaiting the analysis of d, and later
\* (stage "tabs") the details of batch b.
Load(d, b) == [doc |-> d, batch |-> b, stage |-> "analysis"]

\* Foreign without the test of the member ids.
ForeignNever(docId, bId, bDocs) == FALSE

\* The condition of navigateTo under which it clears the batch context: a
\* batch is active and docId is not one of its member ids.
Foreign(docId, bId, bDocs) == bId # Null /\ docId \notin SeqToSet(bDocs)

\* NavigateTo reloading the last viewed document without the batch id.
NavigateToNoBatch(page, docId, bId, bDocs) ==
    /\ currentPage' = page
    /\ IF page = "analysis" /\ docId # Null
       THEN /\ currentBatchId' = IF Foreign(docId, bId, bDocs) THEN Null ELSE bId
            /\ currentBatchDocIds' = IF Foreign(docId, bId, bDocs) THEN <<>> ELSE bDocs
            /\ currentDocId' = docId
            /\ loads' = loads \cup {Load(docId, currentBatchId')}
            /\ UNCHANGED latestPending
       ELSE /\ currentBatchId' = bId
            /\ currentBatchDocIds' = bDocs
            /\ UNCHANGED currentDocId
            /\ IF page = "analysis" /\ currentDocId # Null
               THEN /\ loads' = loads \cup {Load(currentDocId, Null)}
                    /\ UNCHANGED latestPending
               ELSE /\ latestPending' = IF page = "analysis" THEN TRUE
                                        ELSE latestPending
                    /\ UNCHANGED loads

\* NavigateTo clearing the batch id but not the member ids.
NavigateToKeepsList(page, docId, bId, bDocs) ==
    /\ currentPage' = page
    /\ IF page = "analysis" /\ docId # Null
       THEN /\ currentBatchId' = IF Foreign(docId, bId, bDocs) THEN Null ELSE bId
            /\ currentBatchDocIds' = bDocs
            /\ currentDocId' = docId
            /\ loads' = loads \cup {Load(docId, currentBatchId')}
            /\ UNCHANGED latestPending
       ELSE /\ currentBatchId' = bId
            /\ currentBatchDocIds' = bDocs
            /\ UNCHANGED currentDocId
            /\ IF page = "analysis" /\ currentDocId # Null
               THEN /\ loads' = loads \cup {Load(currentDocId, bId)}
                    /\ UNCHANGED latestPending
               ELSE /\ latestPending' = IF page = "analysis" THEN TRUE
                                        ELSE latestPending
                    /\ UNCHANGED loads

\* navigateTo(page, docId) for every page but 'upload', entered with the batch
\* context (bId, bDocs); loadAnalysis is followed up to its first await.
NavigateTo(page, docId, bId, bDocs) ==
    /\ currentPage' = page
    /\ IF page = "analysis" /\ docId # Null
       THEN /\ currentBatchId' = IF Foreign(docId, bId, bDocs) THEN Null ELSE bId
            /\ currentBatchDocIds' = IF Foreign(docId, bId, bDocs) THEN <<>> ELSE bDocs
            /\ currentDocId' = docId
            /\ loads' = loads \cup {Load(docId, currentBatchId')}
            /\ UNCHANGED latestPending
       ELSE /\ currentBatchId' = bId
            /\ currentBatchDocIds' = bDocs
            /\ UNCHANGED currentDocId
            /\ IF page = "analysis" /\ currentDocId # Null
               THEN /\ loads' = loads \cup {Load(currentDocId, bId)}
                    /\ UNCHANGED latestPending
               ELSE /\ latestPending' = IF page = "analysis" THEN TRUE
                                        ELSE latestPending
                    /\ UNCHANGED loads

\* Documents the server can list: the old ones and those of accepted uploads.
ExistingDocs == {OldDoc} \cup SeqToSet(OldBatchDocs)
                \cup UNION {SeqToSet(docIds[s]) : s \in Subs}

\* Batches the history lists: the old one and those of accepted batch uploads.
HistBatches == {OldBatch} \cup {FreshBatchId(s) : s \in {r \in Subs : upl[r] = "active" /\ nfiles[r] > 1}}
\* BatchDocs with the documents in reverse order.
BatchDocsReversed(b) ==
    LET q == IF b = OldBatch THEN OldBatchDocs ELSE docIds[b]
    IN [i \in 1..Len(q) |-> q[Len(q) + 1 - i]]

\* The documents of batch b as GET /api/batch-analysis/b lists them: in the
\* order of the upload.
BatchDocs(b) == IF b = OldBatch THEN OldBatchDocs ELSE docIds[b]

\* ---- User actions ---------------------------------------------------------
\* fileInput change / drop on the upload page
HandleFiles(files) ==
    /\ currentPage = "upload"
    /\ selectedFiles' = AddFiles(selectedFiles, files)
    /\ selectedFiles' # selectedFiles
    /\ UNCHANGED <<navVars, subVars, processingInterval, agentStepInterval,
                   pollLive, animLive, tornDown, overlay, batchProgress,
                   loads, histOpens, viewVars>>
    /\ UNCHANGED <<delVars, kbVars>>

\* the remove button of one row of the file list
RemoveFile(idx) ==
    /\ currentPage = "upload"
    /\ idx \in 1..Len(selectedFiles)
    /\ selectedFiles' = Splice(selectedFiles, idx)
    /\ UNCHANGED <<navVars, subVars, processingInterval, agentStepInterval,
                   pollLive, animLive, tornDown, overlay, batchProgress,
                   loads, histOpens, viewVars>>
    /\ UNCHANGED <<delVars, kbVars>>

\* analyze button: uploadSingle / uploadBatch up to the await of the upload
Analyze(s) ==
    /\ currentPage = "upload"
    /\ Len(selectedFiles) # 0
    /\ upl[s] = "none"
    /\ \A r \in Subs : r < s => upl[r] # "none"
    /\ upl' = [upl EXCEPT ![s] = "inflight"]
    /\ nfiles' = [nfiles EXCEPT ![s] = Len(selectedFiles)]
    /\ overlay' = TRUE
    /\ batchProgress' = IF Len(selectedFiles) = 1 THEN batchProgress
                        ELSE [i \in 1..Len(selectedFiles) |-> "Queued"]
    /\ UNCHANGED <<navVars, docIds, step, inflight, doneRuns,
                   failRuns, entered, uploadAlerts, swallowed, processingInterval,
                   agentStepInterval, selectedFiles, pollLive, animLive, tornDown,
                   loads, histOpens, viewVars>>
    /\ UNCHANGED <<delVars, kbVars>>

\* navigateTo(page) without a document id: 'upload' runs resetUpload, every
\* other page goes through NavigateTo
Navigate(page) ==
    /\ IF page = "upload"
       THEN /\ currentPage' = "upload"
            /\ ResetUpload(pollLive, animLive)
            /\ UNCHANGED <<currentDocId, currentBatchId, currentBatchDocIds,
                           latestPending, loads>>
       ELSE /\ page = "analysis" => Cardinality(loads) < MaxLoads
            /\ NavigateTo(page, Null, currentBatchId, currentBatchDocIds)
            /\ UNCHANGED <<timerVars, batchProgress>>
    /\ UNCHANGED <<subVars, histOpens, viewVars>>

\* sidebar click: navigateTo(page) without a document id
NavClick(page) ==
    /\ Navigate(page)
    /\ UNCHANGED <<delVars, kbVars>>

\* click on a document card, a recent item or a single-document history row
OpenDoc(d) ==
    /\ currentPage \in {"dashboard", "documents", "history"}
    /\ d \in ExistingDocs
    /\ Cardinality(loads) < MaxLoads
    /\ NavigateTo("analysis", d, currentBatchId, currentBatchDocIds)
    /\ UNCHANGED <<subVars, timerVars, batchProgress, histOpens, viewVars>>
    /\ UNCHANGED <<delVars, kbVars>>

\* fetchLatestDocForAnalysis after its await: d is the newest completed
\* document and loadAnalysis(d, null) starts, or d is Null when the request
\* failed or listed none.
LatestResponse(d) ==
    /\ latestPending
    /\ latestPending' = FALSE
    /\ currentDocId' = IF d = Null THEN currentDocId ELSE d
    /\ loads' = IF d = Null THEN loads ELSE loads \cup {Load(d, Null)}
    /\ UNCHANGED <<currentPage, currentBatchId, currentBatchDocIds, subVars,
                   timerVars, batchProgress, histOpens, viewVars>>
    /\ UNCHANGED <<delVars, kbVars>>

\* click on a batch row of the history: openBatchFromHistory up to its await
OpenBatchFromHistory(b) ==
    /\ currentPage = "history"
    /\ b \in HistBatches
    /\ b \notin histOpens
    /\ Cardinality(histOpens) < MaxHistOpens
    /\ histOpens' = histOpens \cup {b}
    /\ UNCHANGED <<navVars, subVars, timerVars, batchProgress, loads, viewVars>>
    /\ UNCHANGED <<delVars, kbVars>>

\* What the request of openBatchFromHistory can come back with.
BatchOutcomes == {"ok", "rejected", "empty", "threw"}

\* BatchResponse with the batch id stored before the test of the documents.
BatchResponseEarlyId(b, outcome) ==
    /\ b \in histOpens
    /\ histOpens' = histOpens \ {b}
    /\ IF outcome = "ok" /\ Len(BatchDocs(b)) > 0
       THEN NavigateTo("analysis", BatchDocs(b)[1], b, BatchDocs(b))
       ELSE /\ currentBatchId' = IF outcome = "empty" THEN b ELSE currentBatchId
            /\ UNCHANGED <<currentPage, currentDocId, currentBatchDocIds,
                           latestPending, loads>>
    /\ UNCHANGED <<subVars, timerVars, batchProgress, viewVars>>
    /\ UNCHANGED <<delVars, kbVars>>

\* openBatchFromHistory after its await: every outcome but "ok" ends in an
\* alert; "ok" sets the batch context and enters the first document.
BatchResponse(b, outcome) ==
    /\ b \in histOpens
    /\ histOpens' = histOpens \ {b}
    /\ IF outcome = "ok" /\ Len(BatchDocs(b)) > 0
       THEN NavigateTo("analysis", BatchDocs(b)[1], b, BatchDocs(b))
       ELSE UNCHANGED <<navVars, loads>>
    /\ UNCHANGED <<subVars, timerVars, batchProgress, viewVars>>
    /\ UNCHANGED <<delVars, kbVars>>

\* click on the tab of document d in the batch tabs: loadAnalysis(d, batchId)
\* with the batch id the tabs were built for
TabClick(d) ==
    /\ currentPage = "analysis"
    /\ tabsVisible
    /\ tabsBatch # Null
    /\ d \in SeqToSet(BatchDocs(tabsBatch))
    /\ Cardinality(loads) < MaxLoads
    /\ currentDocId' = d
    /\ loads' = loads \cup {Load(d, tabsBatch)}
    /\ UNCHANGED <<currentPage, currentBatchId, currentBatchDocIds,
                   latestPending, subVars, timerVars, batchProgress, histOpens,
                   viewVars>>
    /\ UNCHANGED <<delVars, kbVars>>

\* What the analysis request of loadAnalysis can come back with.
LoadOutcomes == {"ok", "rejected", "threw"}

\* loadAnalysis after `await fetch(analysis)`: a rejected request hides the
\* tabs, a thrown error only the content; else it renders the document and, for
\* a call with a batch id while the member list has several entries, shows
\* the batch tabs and asks for the details of the batch.
LoadResponse(l, outcome) ==
    /\ l \in loads
    /\ l.stage = "analysis"
    /\ CASE outcome = "ok" ->
              /\ IF l.batch # Null /\ Len(currentBatchDocIds) > 1
                 THEN /\ tabsVisible' = TRUE
                      /\ loads' = (loads \ {l}) \cup {[l EXCEPT !.stage = "tabs"]}
                 ELSE /\ tabsVisible' = FALSE
                      /\ loads' = loads \ {l}
         [] outcome = "rejected" ->
              /\ tabsVisible' = FALSE
              /\ loads' = loads \ {l}
         [] OTHER ->
              /\ loads' = loads \ {l}
              /\ UNCHANGED tabsVisible
    /\ UNCHANGED <<navVars, subVars, timerVars, batchProgress, histOpens,
                   tabsBatch>>
    /\ UNCHANGED <<delVars, kbVars>>

\* loadAnalysis after `await fetch(batch-analysis)`: rebuilds the tabs for
\* the batch id of the call; a thrown error is logged and leaves them.
TabsResponse(l, ok) ==
    /\ l \in loads
    /\ l.stage = "tabs"
    /\ loads' = loads \ {l}
    /\ tabsBatch' = IF ok THEN l.batch ELSE tabsBatch
    /\ UNCHANGED <<navVars, subVars, timerVars, batchProgress, histOpens,
                   tabsVisible>>
    /\ UNCHANGED <<delVars, kbVars>>

\* ---- Backend --------------------------------------------------------------
Statuses == {"queued", "processing", "completed", "failed"}
Terminal == {"completed", "failed"}

\* The statuses a query of submission s can read.  The backend moves a job
\* forward only and a terminal status is final: once a query has read
\* completed or failed, every later one reads the same; until then a query
\* reads any status.  A deleted job has no status to read: its queries fail.
Readable(s) ==
    IF deleted[s] THEN {}
    ELSE IF doneRuns[s] > 0 THEN {"completed"}
    ELSE IF failRuns[s] > 0 THEN {"failed"}
    ELSE Statuses

\* The member statuses a batch query of n documents can carry beside the
\* batch status o: every member in the batch's status, or, for a completed
\* batch, the first member failed and the others completed.
MemberSnaps(n, o) ==
    {[i \in 1..n |-> o]}
    \cup IF o = "completed" /\ n > 1
         THEN {[i \in 1..n |-> IF i = 1 THEN "failed" ELSE "completed"]}
         ELSE {}

\* Times a terminal branch of the poll callback ran for submission s.
TermRuns(s) == doneRuns[s] + failRuns[s]

\* ---- uploadSingle / uploadBatch -------------------------------------------
\* What the upload request can come back with.
UploadOutcomes == {"ok", "rejected", "threw"}
\* document ids an accepted upload carries: one per file, in upload order
AcceptedIds(s) == FreshDocIds(s, nfiles[s])

\* Started with the setInterval calls moved in front of the `!res.ok` return.
StartedBeforeCheck(s, outcome, live) == [live EXCEPT ![s] = TRUE]

\* The timer table after the upload came back: uploadSingle / uploadBatch
\* reach their setInterval calls only behind the `!res.ok` return and inside
\* the try block.
Started(s, outcome, live) ==
    IF outcome = "ok" THEN [live EXCEPT ![s] = TRUE] ELSE live

\* continuation of uploadSingle / uploadBatch after `await fetch(upload)`
UploadResponse(s, outcome) ==
    /\ upl[s] = "inflight"
    /\ IF outcome = "ok"
       THEN /\ upl' = [upl EXCEPT ![s] = "active"]
            /\ docIds' = [docIds EXCEPT ![s] = AcceptedIds(s)]
            /\ agentStepInterval' = s
            /\ processingInterval' = s
            /\ animLive' = Started(s, outcome, animLive)
            /\ pollLive' = Started(s, outcome, pollLive)
            /\ UNCHANGED <<uploadAlerts, selectedFiles, tornDown, overlay,
                           batchProgress>>
       ELSE /\ upl' = [upl EXCEPT ![s] = "failed"]
            /\ uploadAlerts' = [uploadAlerts EXCEPT ![s] = @ + 1]
            /\ ResetUpload(Started(s, outcome, pollLive),
                           Started(s, outcome, animLive))
            /\ UNCHANGED docIds
    /\ UNCHANGED <<navVars, nfiles, step, inflight, doneRuns, failRuns, entered,
                   swallowed, loads, histOpens, viewVars>>
    /\ UNCHANGED <<delVars, kbVars>>

\* AnimStep with the index taken modulo the number of stages.
AnimStepWrap(i) == IF i < StepCount THEN (i + 1) % StepCount ELSE i

\* The animator callback's `step` after one firing that found it at i.
AnimStep(i) == IF i < StepCount THEN i + 1 ELSE i

\* AnimTick with the exhausted animator cancelling the poller as well.
AnimTickStopsPoller(s) ==
    /\ animLive[s]
    /\ step' = [step EXCEPT ![s] = AnimStep(@)]
    /\ animLive' = IF step[s] < StepCount THEN animLive
                   ELSE ClearInterval(animLive, agentStepInterval)
    /\ pollLive' = IF step[s] < StepCount THEN pollLive
                   ELSE ClearInterval(pollLive, processingInterval)
    /\ UNCHANGED <<navVars, upl, nfiles, docIds, inflight, doneRuns, failRuns, entered, uploadAlerts, swallowed, processingInterval,
                   agentStepInterval, selectedFiles, tornDown,
                   overlay, batchProgress, loads, histOpens, viewVars>>
    /\ UNCHANGED <<delVars, kbVars>>

\* one firing of the animator's setInterval callback
AnimTick(s) ==
    /\ animLive[s]
    /\ step' = [step EXCEPT ![s] = AnimStep(@)]
    /\ animLive' = IF step[s] < StepCount THEN animLive
                   ELSE ClearInterval(animLive, agentStepInterval)
    /\ UNCHANGED <<navVars, upl, nfiles, docIds, inflight, doneRuns, failRuns, entered, uploadAlerts, swallowed, processingInterval,
                   agentStepInterval, selectedFiles, pollLive, tornDown,
                   overlay, batchProgress, loads, histOpens, viewVars>>
    /\ UNCHANGED <<delVars, kbVars>>

RECURSIVE Sum(_, _)
Sum(f, S) == IF S = {} THEN 0
             ELSE LET x == CHOOSE y \in S : TRUE IN f[x] + Sum(f, S \ {x})

\* Queries counted against MaxRuns.
RunsUsed == Sum(inflight, Subs) + Sum(doneRuns, Subs) + Sum(failRuns, Subs)
            + Sum(swallowed, Subs)

\* one firing of the poller's setInterval callback, up to `await fetch(status)`
PollTick(s) ==
    /\ pollLive[s]
    /\ RunsUsed < MaxRuns
    /\ inflight' = [inflight EXCEPT ![s] = @ + 1]
    /\ UNCHANGED <<navVars, upl, nfiles, docIds, step, doneRuns,
                   failRuns, entered, uploadAlerts, swallowed, processingInterval,
                   agentStepInterval, selectedFiles, pollLive, animLive, tornDown,
                   overlay, batchProgress, loads, histOpens, viewVars>>
    /\ UNCHANGED <<delVars, kbVars>>

\* What a status query can come back with: a status, a body without one, or
\* a transport error.
QueryFailures == {"error", "nostatus"}

\* StatusBranch with a failed query taken for a failed job.
StatusBranchNoCatch(o) ==
    IF o \in QueryFailures THEN "failed"
    ELSE IF o = "completed" THEN "completed"
    ELSE IF o = "failed" THEN "failed"
    ELSE "none"

\* The branch of the poll callback a query result selects; a thrown error is
\* swallowed by the empty catch.
StatusBranch(o) ==
    IF o \in QueryFailures THEN "none"
    ELSE IF o = "completed" THEN "completed"
    ELSE IF o = "failed" THEN "failed"
    ELSE "none"

\* MemberLabel with a failed member shown like a completed one.
MemberLabelHideFailed(status, old) ==
    IF status = "completed" THEN "Score"
    ELSE IF status = "processing" THEN "Processing"
    ELSE IF status = "failed" THEN "Score"
    ELSE old

\* The text of a row's .bdi-status after a snapshot with that member status;
\* old is the text before.
MemberLabel(status, old) ==
    IF status = "completed" THEN "Score"
    ELSE IF status = "processing" THEN "Processing"
    ELSE IF status = "failed" THEN "Failed"
    ELSE old

\* The rows of the batch progress after the member statuses docs.
UpdateProgress(items, docs) ==
    [idx \in 1..Len(items) |->
        IF idx <= Len(docs) THEN MemberLabel(docs[idx], items[idx])
        ELSE items[idx]]

\* the poll callback after `await fetch(status)`; a batch query carries the
\* member statuses m, which the callback shows before it looks at the status
PollResponseOf(s, o, m) ==
    /\ inflight[s] > 0
    /\ o \in QueryFailures \cup Readable(s)
    /\ inflight' = [inflight EXCEPT ![s] = @ - 1]
    /\ swallowed' = IF o \in QueryFailures
                    THEN [swallowed EXCEPT ![s] = @ + 1] ELSE swallowed
    /\ CASE StatusBranch(o) = "completed" ->
              /\ pollLive' = ClearInterval(pollLive, processingInterval)
              /\ animLive' = ClearInterval(animLive, agentStepInterval)
              /\ doneRuns' = [doneRuns EXCEPT ![s] = @ + 1]
              /\ batchProgress' = UpdateProgress(batchProgress, m)
              /\ UNCHANGED <<failRuns, processingInterval, agentStepInterval,
                             selectedFiles, tornDown, overlay>>
         [] StatusBranch(o) = "failed" ->
              /\ failRuns' = [failRuns EXCEPT ![s] = @ + 1]
              /\ ResetUpload(ClearInterval(pollLive, processingInterval),
                             ClearInterval(animLive, agentStepInterval))
              /\ UNCHANGED doneRuns
         [] OTHER ->
              /\ batchProgress' = UpdateProgress(batchProgress, m)
              /\ UNCHANGED <<doneRuns, failRuns, processingInterval,
                             agentStepInterval, selectedFiles, pollLive, animLive,
                             tornDown, overlay>>
    /\ UNCHANGED <<navVars, upl, nfiles, docIds, step, entered, uploadAlerts,
                   loads, histOpens, viewVars>>
    /\ UNCHANGED <<delVars, kbVars>>

\* The member lists that can come with the result o of a query of s: none
\* for a single document or a failed query.
SnapsOf(s, o) ==
    IF Kind(s) = "single" \/ o \in QueryFailures THEN {<<>>}
    ELSE MemberSnaps(Len(docIds[s]), o)

\* the poll callback after `await fetch(status)`
PollResponse(s, o) == \E m \in SnapsOf(s, o) : PollResponseOf(s, o, m)

\* the setTimeout callback armed by the completed branch
DoneTimeout(s) ==
    /\ entered[s] < doneRuns[s]
    /\ entered' = [entered EXCEPT ![s] = @ + 1]
    /\ ResetUpload(pollLive, animLive)
    /\ IF Kind(s) = "single"
       THEN NavigateTo("analysis", docIds[s][1], Null, <<>>)
       ELSE IF Len(docIds[s]) > 0
            THEN NavigateTo("analysis", docIds[s][1], FreshBatchId(s), docIds[s])
            ELSE NavigateTo("documents", Null, FreshBatchId(s), docIds[s])
    /\ UNCHANGED <<upl, nfiles, docIds, step, inflight, doneRuns, failRuns,
                   uploadAlerts, swallowed, histOpens, viewVars>>
    /\ UNCHANGED <<delVars, kbVars>>


\* ---- deleteDocument / deleteHistoryItem -----------------------------------
\* delete button of a document card or of the detail view, the dialog
\* confirmed: deleteDocument up to `await fetch(DELETE)`, for the document
\* a single-document submission s polls
DeleteDocument(s) ==
    /\ upl[s] = "active"
    /\ Kind(s) = "single"
    /\ \/ currentPage = "documents"
       \/ currentPage = "analysis" /\ currentDocId = docIds[s][1]
    /\ ~deleted[s]
    /\ delReq[s] = "none"
    /\ delReq' = [delReq EXCEPT ![s] = "card"]
    /\ UNCHANGED <<mainVars, deleted, delPause, kbVars>>

\* delete button of a history row, the dialog confirmed: deleteHistoryItem
\* up to `await fetch(DELETE)`, for the document or the batch submission s
\* polls
DeleteHistoryItem(s) ==
    /\ currentPage = "history"
    /\ upl[s] = "active"
    /\ ~deleted[s]
    /\ delReq[s] = "none"
    /\ delReq' = [delReq EXCEPT ![s] = "history"]
    /\ UNCHANGED <<mainVars, deleted, delPause, kbVars>>

\* What the DELETE request can come back with.
DeleteOutcomes == {"ok", "rejected", "threw"}

\* deleteDocument / deleteHistoryItem after `await fetch(DELETE)`: an OK
\* answer means the job is gone; deleteDocument then waits 600 ms,
\* deleteHistoryItem reloads the history; every other answer ends in an alert.
DeleteResponse(s, outcome) ==
    /\ delReq[s] # "none"
    /\ delReq' = [delReq EXCEPT ![s] = "none"]
    /\ deleted' = [deleted EXCEPT ![s] = @ \/ outcome = "ok"]
    /\ delPause' = [delPause EXCEPT ![s] = @ \/ (delReq[s] = "card" /\ outcome = "ok")]
    /\ UNCHANGED <<mainVars, kbVars>>

\* deleteDocument after its 600 ms: refreshes the page the user is on, or
\* leaves the detail view for the documents
DeletePauseDone(s) ==
    /\ delPause[s]
    /\ delPause' = [delPause EXCEPT ![s] = FALSE]
    /\ Navigate(IF currentPage = "analysis" THEN "documents" ELSE currentPage)
    /\ UNCHANGED <<delReq, deleted, kbVars>>

\* ---- Reindex of the knowledge base ----------------------------------------
\* What POST /api/kb/reindex can come back with.
KbStartOutcomes == {"ok", "rejected", "threw"}
\* What a progress query can come back with: a status, or a failure of the
\* request or of its body.
KbStatuses == {"running", "done", "error", "idle"}
KbTerminal == {"done", "error", "idle"}
KbQueryOutcomes == KbStatuses \cup {"threw"}

\* click on #reindexBtn, the dialog confirmed, up to `await fetch(reindex)`;
\* a disabled button takes no click
ReindexClick(r) ==
    /\ ~kbBtnDisabled
    /\ kbStart[r] = "none"
    /\ \A q \in KbRuns : q < r => kbStart[q] # "none"
    /\ kbStart' = [kbStart EXCEPT ![r] = "inflight"]
    /\ kbBtnDisabled' = TRUE
    /\ kbProgress' = TRUE
    /\ kbClose' = FALSE
    /\ kbPct' = 0
    /\ UNCHANGED <<mainVars, delVars, kbPollLive, kbInflight>>

\* the click handler after `await fetch(reindex)`: an accepted request
\* starts the progress poller; any other answer is thrown into the outer
\* catch, which alerts, enables the button and hides the progress
ReindexStarted(r, outcome) ==
    /\ kbStart[r] = "inflight"
    /\ IF outcome = "ok"
       THEN /\ kbStart' = [kbStart EXCEPT ![r] = "polling"]
            /\ kbPollLive' = [kbPollLive EXCEPT ![r] = TRUE]
            /\ UNCHANGED <<kbBtnDisabled, kbProgress>>
       ELSE /\ kbStart' = [kbStart EXCEPT ![r] = "failed"]
            /\ kbBtnDisabled' = FALSE
            /\ kbProgress' = FALSE
            /\ UNCHANGED kbPollLive
    /\ UNCHANGED <<mainVars, delVars, kbInflight, kbClose, kbPct>>

\* one firing of the reindex poller, up to `await fetch(status)`
KbPollTick(r) ==
    /\ kbPollLive[r]
    /\ kbInflight[r] < MaxKbQueries
    /\ kbInflight' = [kbInflight EXCEPT ![r] = @ + 1]
    /\ UNCHANGED <<mainVars, delVars, kbStart, kbPollLive, kbBtnDisabled,
                   kbProgress, kbClose, kbPct>>

\* Percentages a progress report can carry: Math.round(current / total * 100),
\* or 0 without a total.
KbPcts == {0, 50, 100}

\* the reindex poller's callback after `await fetch(status)` read status o
\* and percentage pct: it shows the percentage; a terminal status stops the
\* poller, shows 100 %, enables the button and shows the close button; a
\* failed query stops the poller in the catch and changes nothing else
KbPollResponse(r, o, pct) ==
    /\ kbInflight[r] > 0
    /\ kbInflight' = [kbInflight EXCEPT ![r] = @ - 1]
    /\ CASE o \in KbTerminal ->
              /\ kbPollLive' = [kbPollLive EXCEPT ![r] = FALSE]
              /\ kbPct' = 100
              /\ kbBtnDisabled' = FALSE
              /\ kbClose' = TRUE
         [] o = "threw" ->
              /\ kbPollLive' = [kbPollLive EXCEPT ![r] = FALSE]
              /\ UNCHANGED <<kbBtnDisabled, kbClose, kbPct>>
         [] OTHER ->
              /\ kbPct' = pct
              /\ UNCHANGED <<kbPollLive, kbBtnDisabled, kbClose>>
    /\ UNCHANGED <<mainVars, delVars, kbStart, kbProgress>>

\* click on #closeReindexBtn
CloseReindex ==
    /\ kbClose
    /\ kbProgress
    /\ kbProgress' = FALSE
    /\ UNCHANGED <<mainVars, delVars, kbStart, kbPollLive, kbInflight,
                   kbBtnDisabled, kbClose, kbPct>>
\* ---- Specifications -------------------------------------------------------
\* The submissions: two of them, every outcome of upload and status query,
\* the sidebar and the responses of the detail view; clicks in the document
\* lists and the answer of fetchLatestDocForAnalysis are left to NavSpec.
Next ==
    \/ \E files \in PickLists : HandleFiles(files)
    \/ \E idx \in 1..2 : RemoveFile(idx)
    \/ \E s \in Subs : Analyze(s)
    \/ \E page \in NavPages : NavClick(page)
    \/ \E s \in Subs, outcome \in UploadOutcomes : UploadResponse(s, outcome)
    \/ \E s \in Subs : AnimTick(s)
    \/ \E s \in Subs : PollTick(s)
    \/ \E s \in Subs, o \in QueryFailures \cup Statuses : PollResponse(s, o)
    \/ \E s \in Subs : DoneTimeout(s)
    \/ \E l \in loads, outcome \in LoadOutcomes : LoadResponse(l, outcome)
    \/ \E l \in loads, ok \in BOOLEAN : TabsResponse(l, ok)

Spec == Init /\ [][Next]_vars

\* The detail view: one batch submission that the server accepts and whose
\* queries succeed, the history, the batch tabs and every response of the
\* detail view's requests.
NavNext ==
    \/ \E files \in NavPickLists : HandleFiles(files)
    \/ Analyze(1)
    \/ UploadResponse(1, "ok")
    \/ PollTick(1) /\ inflight[1] = 0
    \/ PollResponse(1, "completed")
    \/ DoneTimeout(1)
    \/ \E page \in NavSpecPages : NavClick(page)
    \/ \E d \in OpenableDocs : OpenDoc(d)
    \/ \E d \in {OldDoc, Null} : LatestResponse(d)
    \/ \E b \in {OldBatch, FreshBatchId(1)} : OpenBatchFromHistory(b)
    \/ \E b \in {OldBatch, FreshBatchId(1)}, outcome \in BatchOutcomes :
          BatchResponse(b, outcome)
    \/ \E d \in TabDocs : TabClick(d)
    \/ \E l \in loads, outcome \in LoadOutcomes : LoadResponse(l, outcome)
    \/ \E l \in loads, ok \in BOOLEAN : TabsResponse(l, ok)

NavSpec == Init /\ [][NavNext]_vars

\* One or two single-document submissions whose timers fire and whose
\* requests are answered.  A poller ticks when none of its queries is in
\* flight and no query of its submission has read a terminal status (so the
\* bound MaxRuns never stops a tick here); every status query succeeds.
LiveNext ==
    \/ HandleFiles(<<FileA>>)
    \/ \E s \in Subs : Analyze(s)
    \/ NavClick("upload")
    \/ \E s \in Subs, outcome \in UploadOutcomes : UploadResponse(s, outcome)
    \/ \E s \in Subs : AnimTick(s)
    \/ \E s \in Subs : PollTick(s) /\ inflight[s] = 0 /\ TermRuns(s) = 0
    \/ \E s \in Subs, o \in Statuses : PollResponse(s, o)
    \/ \E s \in Subs : DoneTimeout(s)
    \/ \E l \in loads : LoadResponse(l, "ok")

\* An interval timer fires as long as it is scheduled, a request in flight
\* is answered, a pending setTimeout callback runs; and the job reaches a
\* terminal status: a submission whose queries keep being answered has one
\* of them read completed or failed.
LiveSpec ==
    /\ Init
    /\ [][LiveNext]_vars
    /\ \A s \in Subs :
          /\ WF_vars(PollTick(s) /\ inflight[s] = 0 /\ TermRuns(s) = 0)
          /\ WF_vars(AnimTick(s))
          /\ WF_vars(\E outcome \in UploadOutcomes : UploadResponse(s, outcome))
          /\ WF_vars(\E o \in Statuses : PollResponse(s, o))
          /\ SF_vars(\E o \in Terminal : PollResponse(s, o))
          /\ WF_vars(DoneTimeout(s))


\* One submission, of one file or of two, that the server accepts, the
\* pages with a delete button and the deletion of the job being polled.
DelNext ==
    \/ \E files \in {<<FileA>>, <<FileA, FileB>>} : HandleFiles(files)
    \/ Analyze(1)
    \/ UploadResponse(1, "ok")
    \/ \E page \in {"documents", "history", "upload"} : NavClick(page)
    \/ DeleteDocument(1)
    \/ DeleteHistoryItem(1)
    \/ \E outcome \in DeleteOutcomes : DeleteResponse(1, outcome)
    \/ DeletePauseDone(1)
    \/ AnimTick(1)
    \/ PollTick(1)
    \/ \E o \in QueryFailures \cup Statuses : PollResponse(1, o)
    \/ DoneTimeout(1)
    \/ \E l \in loads, outcome \in LoadOutcomes : LoadResponse(l, outcome)
    \/ \E l \in loads, ok \in BOOLEAN : TabsResponse(l, ok)

DelSpec == Init /\ [][DelNext]_vars

\* The reindex button: every answer of the start request and of the
\* progress queries.
KbNext ==
    \/ \E r \in KbRuns : ReindexClick(r)
    \/ \E r \in KbRuns, outcome \in KbStartOutcomes : ReindexStarted(r, outcome)
    \/ \E r \in KbRuns : KbPollTick(r)
    \/ \E r \in KbRuns, o \in KbQueryOutcomes, pct \in KbPcts :
          KbPollResponse(r, o, pct)
    \/ CloseReindex

KbSpec == Init /\ [][KbNext]_vars

\* The file selection: picks that reach the limit of ten files, removals at
\* either end of the list, the analyze button and the sidebar.
FilesNext ==
    \/ \E files \in FilesPickLists : HandleFiles(files)
    \/ RemoveFile(Len(selectedFiles))
    \/ \E s \in Subs : Analyze(s)
    \/ \E page \in {"upload", "dashboard"} : NavClick(page)

FilesSpec == Init /\ [][FilesNext]_vars
\* ---- Properties -----------------------------------------------------------
\* C1: for every submission the terminal handling (completed branch or failed
\* branch) runs at most once, and no status response of the submission is
\* processed after it has run.
C1_TerminalAtMostOnce ==
    /\ [](\A s \in Subs : TermRuns(s) <= 1)
    /\ [][\A s \in Subs, o \in Statuses :
             TermRuns(s) > 0 => ~PollResponse(s, o)]_vars

\* C2: once resetUpload has cancelled the live poller of a submission, the
\* responses of its queries still in flight run neither the completed nor the
\* failed branch (no alert, no delayed view transition armed).
C2_NoHandlingAfterTeardown ==
    [][\A s \in Subs, o \in QueryFailures \cup Statuses :
          (tornDown[s] /\ PollResponse(s, o))
              => /\ doneRuns'[s] = doneRuns[s]
                 /\ failRuns'[s] = failRuns[s]]_vars

\* C3: when the user leaves the upload view for another view while a
\* submission polls, the poller and the animator of that submission are
\* cancelled by that navigation.
C3_LeavingCancelsTimers ==
    [][\A page \in Pages \ {"upload"}, s \in Subs :
          (NavClick(page) /\ currentPage = "upload" /\ upl[s] = "active"
                          /\ pollLive[s])
              => (~pollLive'[s] /\ ~animLive'[s])]_vars

\* C4: at most one status query of a submission is in flight at any time.
C4_PollsDoNotOverlap == \A s \in Subs : inflight[s] <= 1

\* A step taken by a callback of submission a.
CallbackOf(a) ==
    \/ AnimTick(a)
    \/ \E o \in QueryFailures \cup Statuses : PollResponse(a, o)
    \/ DoneTimeout(a)
    \/ \E outcome \in UploadOutcomes : UploadResponse(a, outcome)

\* C5: a callback of one submission never cancels or otherwise changes a
\* timer of another submission.
C5_TimersOwnedBySubmission ==
    [][\A a \in Subs, b \in Subs :
          (a # b /\ CallbackOf(a))
              => (pollLive'[b] = pollLive[b] /\ animLive'[b] = animLive[b])]_vars

\* C6: once a terminal status has been processed for a submission, neither
\* its poller nor its animator is live.
C6_TerminalStopsBothTimers ==
    \A s \in Subs : TermRuns(s) > 0 => (~pollLive[s] /\ ~animLive[s])

\* C7: a failed status query (transport error, or a body without a status)
\* changes nothing but the query being over: the submission stays active, the
\* timers, the handles, the view, the batch context and the file selection
\* are as before, and neither the completed nor the failed branch runs.
C7_QueryFailureIsSilent ==
    [][\A s \in Subs, o \in QueryFailures :
          PollResponse(s, o)
              => /\ pollLive' = pollLive
                 /\ animLive' = animLive
                 /\ UNCHANGED <<navVars, upl, doneRuns, failRuns, entered,
                                uploadAlerts, processingInterval,
                                agentStepInterval, selectedFiles, step>>]_vars

\* C7 witness: a submission that absorbed a failed query and still polls.
C7_Witness ==
    \E s \in Subs : /\ swallowed[s] > 0
                    /\ upl[s] = "active"
                    /\ pollLive[s] /\ animLive[s]
                    /\ TermRuns(s) = 0

\* C8: a single-document submission that reads completed makes the completion
\* transition exactly once: the completed branch runs once and cancels the
\* animator, and its delayed callback runs once, empties the batch context and
\* enters the analysis view for the document of the submission.
C8_SingleCompletesOnce ==
    /\ [](\A s \in Subs : Kind(s) = "single" => (doneRuns[s] <= 1 /\ entered[s] <= 1))
    /\ [][\A s \in Subs :
             (Kind(s) = "single" /\ PollResponse(s, "completed"))
                 => ~animLive'[s]]_vars
    /\ [][\A s \in Subs :
             (Kind(s) = "single" /\ DoneTimeout(s))
                 => /\ currentBatchId' = Null
                    /\ currentBatchDocIds' = <<>>
                    /\ currentPage' = "analysis"
                    /\ currentDocId' = docIds[s][1]]_vars

\* C9: a failed status is surfaced exactly once per submission, stops the
\* poller and the animator of the submission, enters no analysis view and
\* leaves the batch context as it was.
C9_FailureSurfacedOnce ==
    /\ [](\A s \in Subs : failRuns[s] <= 1)
    /\ [][\A s \in Subs :
             PollResponse(s, "failed")
                 => /\ failRuns'[s] = failRuns[s] + 1
                    /\ ~pollLive'[s] /\ ~animLive'[s]
                    /\ UNCHANGED <<currentPage, currentDocId, currentBatchId,
                                   currentBatchDocIds>>]_vars

\* C10: an upload that is rejected or throws raises its alert in the same
\* step, and no poller or animator of that submission is ever started: it
\* has no live timer, no animation step taken and no status query issued.
C10_FailedUploadStartsNoTimer ==
    \A s \in Subs :
        upl[s] = "failed"
            => /\ uploadAlerts[s] = 1
               /\ ~pollLive[s] /\ ~animLive[s]
               /\ step[s] = 0 /\ inflight[s] = 0
               /\ TermRuns(s) = 0 /\ swallowed[s] = 0

\* C10 witness: an upload failed while another submission was polling.
C10_Witness ==
    \E s \in Subs, r \in Subs :
        upl[s] = "failed" /\ uploadAlerts[s] = 1 /\ upl[r] = "active"


\* A step that ends a failure path of submission s: the upload was rejected
\* or threw, or a status query read failed.
FailurePath(s) ==
    \/ \E outcome \in UploadOutcomes \ {"ok"} : UploadResponse(s, outcome)
    \/ PollResponse(s, "failed")

\* C11: every failure path of a submission (upload rejected, upload threw,
\* job or batch reported failed) ends in a clean idle state: the submission
\* has no live poller or animator, both timer handles are null, no file is
\* selected and the processing overlay is hidden.
C11_FailureEndsIdle ==
    [][\A s \in Subs :
          FailurePath(s)
              => /\ ~pollLive'[s] /\ ~animLive'[s]
                 /\ processingInterval' = Null /\ agentStepInterval' = Null
                 /\ selectedFiles' = <<>>
                 /\ ~overlay']_vars

\* What resetUpload reads and writes, in the current state.
CurrentUpload == UploadState(pollLive, animLive)

\* The state resetUpload leaves: nothing selected, overlay and batch progress
\* hidden, both handles null.
Idle(st) ==
    /\ st.sel = <<>> /\ ~st.overlay /\ st.progress = <<>>
    /\ st.pi = Null /\ st.ai = Null

\* C12: resetUpload is idempotent.  In every reachable state (timers live,
\* timers that ended by themselves, no submission ever started) one call
\* leaves an idle state and a second call in a row leaves exactly the state
\* the first left; and a click on the upload page's sidebar entry in a state
\* a reset has left changes nothing of that state.
C12_ResetIdempotent ==
    /\ [](/\ Idle(Reset(CurrentUpload))
          /\ Reset(Reset(CurrentUpload)) = Reset(CurrentUpload))
    /\ [][(NavClick("upload") /\ CurrentUpload = Reset(CurrentUpload))
             => CurrentUpload' = CurrentUpload]_vars

\* C12 witness: the completed branch ended both timers, its delayed callback
\* reset the upload, and the user came back to the upload page, which reset
\* it again.
C12_Witness ==
    \E s \in Subs :
        /\ entered[s] > 0 /\ ~pollLive[s] /\ ~animLive[s]
        /\ currentPage = "upload"
        /\ CurrentUpload = Reset(CurrentUpload)

\* C13: entering the detail view for a document id while a batch is active
\* resets the batch context to empty if and only if the id is not one of the
\* member ids; for a member the batch id and the member ids stay exactly as
\* they were and the document is loaded with that batch id.
C13_MembershipCheck ==
    [][\A d \in OpenableDocs :
          (OpenDoc(d) /\ currentBatchId # Null)
              => /\ (currentBatchId' = Null /\ currentBatchDocIds' = <<>>)
                        <=> d \notin SeqToSet(currentBatchDocIds)
                 /\ d \in SeqToSet(currentBatchDocIds)
                        => /\ currentBatchId' = currentBatchId
                           /\ currentBatchDocIds' = currentBatchDocIds
                           /\ Load(d, currentBatchId) \in loads'
                 /\ d \notin SeqToSet(currentBatchDocIds)
                        => Load(d, Null) \in loads'
                 /\ currentDocId' = d]_vars

\* C13 witness: the second member of the active batch was opened from a list
\* (no tabs were ever built, so not by a tab), the batch context is as the
\* completion set it and the load carries the batch id.
C13_Witness ==
    /\ currentBatchId = FreshBatchId(1)
    /\ currentBatchDocIds = docIds[1]
    /\ currentDocId = FreshDocIds(1, 2)[2]
    /\ Load(currentDocId, currentBatchId) \in loads
    /\ tabsBatch = Null

\* C14: in every reachable state, if the active batch id is set then the
\* document of the detail view (currentDocId) is one of the member ids.
C14_DisplayedIsMember ==
    currentBatchId # Null => currentDocId \in SeqToSet(currentBatchDocIds)

\* No request of the detail view is pending.
ViewSettled == loads = {} /\ histOpens = {} /\ ~latestPending

\* C15: whenever the batch tabs are visible in the detail view and no load
\* of the detail view is pending any more, the tabs are those of the active
\* batch (so a batch is active).
C15_TabsBelongToActiveBatch ==
    (currentPage = "analysis" /\ tabsVisible /\ tabsBatch # Null /\ ViewSettled)
        => tabsBatch = currentBatchId

\* The member ids of batch b in submission order.
OrderedMembers(b) == IF b = OldBatch THEN OldBatchDocs ELSE FreshDocIds(b, nfiles[b])

C17_AnimatorSelfTerminates ==
    /\ [](\A s \in Subs : step[s] \in 0..StepCount)
    /\ [][\A s \in Subs : step'[s] \in {step[s], step[s] + 1}]_vars
    /\ [][\A s \in Subs :
             (AnimTick(s) /\ step[s] = StepCount) => ~animLive'[s]]_vars

\* C18: the animator is decoration.  A tick of it, the one that exhausts it
\* included, changes only its stage index and its own scheduling: not the
\* poller, not the counts of completion and failure handling, not the view,
\* not the batch context.  And the completion handling (the completed
\* branch and its delayed callback) does to everything but the animator
\* what it does whatever stage the animator is in.
C18_AnimatorIsDecorative ==
    /\ [][\A s \in Subs :
             AnimTick(s)
                 => UNCHANGED <<navVars, upl, nfiles, docIds, inflight,
                                doneRuns, failRuns, entered, uploadAlerts,
                                swallowed, processingInterval,
                                agentStepInterval, selectedFiles, pollLive,
                                tornDown, overlay, batchProgress, loads,
                                histOpens, viewVars>>]_vars
    /\ [][\A s \in Subs :
             PollResponse(s, "completed")
                 => /\ doneRuns' = [doneRuns EXCEPT ![s] = @ + 1]
                    /\ pollLive' = ClearInterval(pollLive, processingInterval)
                    /\ UNCHANGED <<navVars, upl, failRuns, entered, step,
                                   processingInterval, agentStepInterval,
                                   selectedFiles, overlay>>]_vars
    /\ [][\A s \in Subs :
             DoneTimeout(s)
                 => /\ entered' = [entered EXCEPT ![s] = @ + 1]
                    /\ currentPage' = "analysis"
                    /\ currentDocId' = docIds[s][1]
                    /\ CurrentUpload' = Reset(CurrentUpload)
                    /\ UNCHANGED <<upl, doneRuns, failRuns, step>>]_vars

\* C18 witness: a lone submission whose animator showed its last stage
\* before the job completed, and whose completion then entered the
\* analysis of its document.
C18_Witness ==
    /\ upl[2] = "none"
    /\ step[1] = StepCount
    /\ doneRuns[1] = 1 /\ entered[1] = 1
    /\ currentPage = "analysis" /\ currentDocId = docIds[1][1]

\* The member statuses of a batch of three whose first document failed.
PartialSnap == <<"failed", "completed", "completed">>

\* C19: a batch query that reads completed with the members failed,
\* completed, completed takes the completed branch (not the failed one) and
\* the displayed progress shows the first member as Failed and the others
\* with their score; the delayed callback of a completed batch of three sets
\* the batch context to the batch id with all three ids in submission
\* order, the failed first one included.
C19_PartialFailureCompletes ==
    /\ [][\A s \in Subs :
             (PollResponseOf(s, "completed", PartialSnap) /\ batchProgress # <<>>)
                 => /\ doneRuns' = [doneRuns EXCEPT ![s] = @ + 1]
                    /\ failRuns' = failRuns
                    /\ uploadAlerts' = uploadAlerts
                    /\ batchProgress' = <<"Failed", "Score", "Score">>]_vars
    /\ [][\A s \in Subs :
             (DoneTimeout(s) /\ nfiles[s] = Len(PartialSnap))
                 => /\ currentBatchId' = FreshBatchId(s)
                    /\ currentBatchDocIds' = FreshDocIds(s, Len(PartialSnap))
                    /\ Len(currentBatchDocIds') = Len(PartialSnap)
                    /\ currentBatchDocIds'[1] = docIds[s][1]]_vars

\* C19 witness: the completed branch ran for the batch of three and the
\* progress shows its first member as failed.
C19_Witness ==
    /\ nfiles[1] = Len(PartialSnap)
    /\ doneRuns[1] = 1 /\ failRuns[1] = 0
    /\ batchProgress = <<"Failed", "Score", "Score">>

\* C20: a submission that is active and not torn down eventually has a
\* terminal status processed and its poller stopped (or is torn down).
C20_ActiveReachesTerminal ==
    \A s \in Subs :
        (upl[s] = "active" /\ ~tornDown[s])
            ~> (tornDown[s] \/ (TermRuns(s) > 0 /\ ~pollLive[s]))

\* C21: the poller of a job that is deleted is torn down before the
\* deletion completes: once the DELETE request for the job a submission
\* polls was answered OK, no status query for that job is issued.
C21_NoQueryAfterDelete ==
    [][\A s \in Subs : deleted[s] => ~PollTick(s)]_vars

\* The call of loadAnalysis a successful reopening of the old batch makes:
\* its first document, with the batch id.
ReopenedLoad == Load(OldBatchDocs[1], OldBatch)

\* C22: after the batch of the history (two documents) was reopened, the
\* detail view of its first document shows the batch tabs: whatever the
\* server answers to the request for that document's analysis while the
\* reopened batch is the active one, the tabs are displayed afterwards.
C22_ReopenedBatchShowsTabs ==
    [][\A outcome \in {"ok", "rejected"} :
          (/\ currentBatchId = OldBatch
           /\ currentDocId = OldBatchDocs[1]
           /\ LoadResponse(ReopenedLoad, outcome))
              => tabsVisible']_vars

\* C23: entering the analysis view without a document id.  When a last
\* viewed document exists, the sidebar click reloads it together with the
\* current batch id and asks the server for nothing else; when none exists
\* it starts no load but the request for the newest completed document with
\* an analysis, whose answer loads that document with no batch id, or
\* loads nothing when there is no such document.
C23_AnalysisWithoutJobId ==
    /\ [][NavClick("analysis")
             => /\ currentPage' = "analysis"
                /\ UNCHANGED <<currentDocId, currentBatchId, currentBatchDocIds>>
                /\ IF currentDocId # Null
                   THEN /\ loads' = loads \cup {Load(currentDocId, currentBatchId)}
                        /\ latestPending' = latestPending
                   ELSE /\ loads' = loads
                        /\ latestPending']_vars
    /\ [][\A d \in {OldDoc, Null} :
             LatestResponse(d)
                 => /\ ~latestPending'
                    /\ IF d # Null
                       THEN /\ loads' = loads \cup {Load(d, Null)}
                            /\ currentDocId' = d
                       ELSE /\ loads' = loads
                            /\ currentDocId' = currentDocId]_vars

\* C23 witness: a document of no batch, the last viewed one, is reloaded by
\* the sidebar click together with the id of the active batch (a call no
\* click on a list or a tab makes: those carry a member or clear the batch).
C23_Witness ==
    /\ currentPage = "analysis"
    /\ currentDocId = OldDoc
    /\ currentBatchId = FreshBatchId(1)
    /\ Load(OldDoc, FreshBatchId(1)) \in loads

\* C24: if resetUpload runs while the upload request of a submission is
\* still in flight (the overlay its analyze click displayed is hidden again
\* while the request pends), the answer of that request starts neither the
\* poller nor the animator of the submission.
C24_TeardownWhileSubmitting ==
    [][\A s \in Subs, outcome \in UploadOutcomes :
          (upl[s] = "inflight" /\ ~overlay /\ UploadResponse(s, outcome))
              => (~pollLive'[s] /\ ~animLive'[s])]_vars

\* C25: no timer is leaked: in every reachable state every live poller is
\* the timer processingInterval names and every live animator is the timer
\* agentStepInterval names, so at most one of each is live and one
\* resetUpload stops them all.
C25_NoTimerLeaked ==
    \A s \in Subs :
        /\ pollLive[s] => processingInterval = s
        /\ animLive[s] => agentStepInterval = s

\* C26: when several loadAnalysis calls pend at once, the document that is
\* rendered once all of them are answered is the one requested last: a
\* successful answer that leaves no call waiting for its analysis (the
\* answer whose rendering stays) is the answer for currentDocId.
C26_LastRequestedIsRendered ==
    [][\A l \in loads :
          (/\ LoadResponse(l, "ok")
           /\ \A k \in loads' : k.stage # "analysis")
              => l.doc = currentDocId]_vars

C28_FailedReopenChangesNothing ==
    [][\A b \in {OldBatch} \cup Subs, outcome \in BatchOutcomes \ {"ok"} :
          BatchResponse(b, outcome)
              => UNCHANGED <<currentBatchId, currentBatchDocIds, currentDocId,
                             currentPage, latestPending, loads, tabsVisible,
                             tabsBatch>>]_vars

\* C28 witness: the old batch is being reopened while the batch of the
\* completed submission is active and its first document is on display, so
\* a failed answer has a context, a document and a view to leave alone.
C28_Witness ==
    /\ OldBatch \in histOpens
    /\ currentBatchId = FreshBatchId(1)
    /\ currentBatchDocIds = docIds[1]
    /\ currentDocId = docIds[1][1]
    /\ tabsVisible

\* No reindex is starting or polling and no progress query is pending.
KbStopped ==
    \A r \in KbRuns : kbStart[r] # "inflight" /\ ~kbPollLive[r] /\ kbInflight[r] = 0

\* C29: once a reindex was started successfully and its progress polling
\* has stopped, on whichever path (a terminal status or a failed progress
\* query), the reindex button is enabled.
C29_ButtonEnabledAfterPolling ==
    ((\E r \in KbRuns : kbStart[r] = "polling") /\ KbStopped) => ~kbBtnDisabled

\* The files of a list that handleFiles would take.
Acceptable(sel) ==
    \A i \in 1..Len(sel) : sel[i].ext \in ValidExts /\ sel[i].size <= MaxFileSize

\* C30: after any sequence of additions and removals the selected-file list
\* holds at most ten files, no two of the same name, and only files with an
\* allowed extension and at most 16 MB; the analyze button does nothing
\* with an empty list (no step starts a submission or displays the overlay),
\* starts a single-document submission with one file and a batch
\* submission, with one progress row per file, with two or more.
C30_SelectionAndDispatch ==
    /\ [](/\ Len(selectedFiles) <= MaxBatchFiles
          /\ \A i, j \in 1..Len(selectedFiles) :
                selectedFiles[i].name = selectedFiles[j].name => i = j
          /\ Acceptable(selectedFiles))
    /\ [][Len(selectedFiles) = 0 => (upl' = upl /\ (overlay' => overlay))]_vars
    /\ [][\A s \in Subs :
             Analyze(s)
                 => /\ upl'[s] = "inflight"
                    /\ nfiles'[s] = Len(selectedFiles)
                    /\ Len(selectedFiles) = 1
                          => batchProgress' = batchProgress
                    /\ Len(selectedFiles) >= 2
                          => batchProgress'
                                = [i \in 1..Len(selectedFiles) |-> "Queued"]]_vars

\* C30 witness: the pick of eleven files filled the list to the limit and
\* the analyze button sent the ten of them as one batch.
C30_Witness ==
    /\ Len(selectedFiles) = MaxBatchFiles
    /\ upl[1] = "inflight"
    /\ nfiles[1] = MaxBatchFiles
    /\ Len(batchProgress) = MaxBatchFiles
====
